---- MODULE Spec2Model ----
(***************************************************************************)
(* The bubbletea Model of k8s-cli (internal/model/model.go): the UI state, *)
(* the key handlers of Model.Update, the commands they schedule and the    *)
(* completion messages Model.Update reconciles.                            *)
(*                                                                         *)
(* Not modelled: the spinner (spinner.TickMsg only animates it) and        *)
(* tea.WindowSizeMsg (it only stores width and height).                    *)
(***************************************************************************)
EXTENDS Integers, Sequences, FiniteSets, TLC

VARIABLES
    loading,        \* Model.loading
    currentView,    \* Model.currentView
    selectedItem,   \* Model.selectedItem
    message,        \* Model.message
    error,          \* Model.error
    client,         \* Model.client: "nil" or "client"
    namespaces,     \* Model.namespaces
    currentNS,      \* Model.currentNS
    context,        \* Model.context
    resourceData,   \* Model.resourceData
    detailContent,  \* Model.detailContent
    pending,        \* the commands handed to the runtime that have not yet delivered their message
    proc,           \* the program: "running", "quit" (tea.Quit) or "crashed" (a Go panic)
    issued,         \* history: the command in flight and the Session it was issued against: as it
                    \* was just before the key that scheduled it, or as the completion handler
                    \* that scheduled it left it (NoIssue when no command is in flight)
    sched,          \* history: the commands scheduled by Init and by completion handlers, in order
    startup         \* history: TRUE until the startup sequence has ended

vars == <<loading, currentView, selectedItem, message, error, client, namespaces,
          currentNS, context, resourceData, detailContent, pending, proc,
          issued, sched, startup>>

model == <<loading, currentView, selectedItem, message, error, client, namespaces,
           currentNS, context, resourceData, detailContent>>

(***************************************************************************)
(* Bounds of the cluster the Gateway reads.                                *)
(***************************************************************************)
MaxPods == 2
MaxServices == 1
MaxNamespaces == 2

(***************************************************************************)
(* resources.ViewType                                                      *)
(***************************************************************************)
PodView == "pods"
ServiceView == "services"
DetailView == "detail"
NamespaceView == "namespaces"
ViewType == {PodView, ServiceView, DetailView, NamespaceView}

(***************************************************************************)
(* What the cluster can answer.                                            *)
(***************************************************************************)
NsNames == <<"default", "kube-system", "monitoring", "staging">>

\* the transport errors of the cluster API
ErrTexts == {"timeout"}

\* client.GetNamespaces: the names of the namespaces the cluster lists
\* (every prefix of NsNames within the bound, and the longest without "default")
ClusterNamespaces ==
    {SubSeq(NsNames, 1, j) : j \in 0..MaxNamespaces} \cup {SubSeq(NsNames, 2, MaxNamespaces)}

\* resources.GetPods: n pods of the namespace asked for
PodList(ns, n) == [i \in 1..n |-> [Name |-> "pod-" \o ToString(i), Namespace |-> ns]]

\* resources.GetServices: n services of the namespace asked for
ServiceList(ns, n) == [i \in 1..n |-> [Name |-> "svc-" \o ToString(i), Namespace |-> ns]]

\* resources.ResourceData{}
EmptyData == [Pods |-> <<>>, Services |-> <<>>]

\* resources.GetPodDetail: the text describing a pod
PodDetailText(ns, name) == "Pod: " \o name \o " Namespace: " \o ns

\* resources.GetServiceDetail: the text describing a service
ServiceDetailText(ns, name) == "Service: " \o name \o " Namespace: " \o ns

(***************************************************************************)
(* Commands: what each tea.Cmd delivers when the runtime runs it.  A       *)
(* result with panic set is a nil pointer dereference inside the command   *)
(* (a method of a nil *K8sClient reading c.Clientset).                     *)
(***************************************************************************)
Cmd(c, cl, ns, name) == [cmd |-> c, client |-> cl, ns |-> ns, name |-> name]

Ok(v) == [panic |-> FALSE, err |-> "", val |-> v]
Fail(e, v) == [panic |-> FALSE, err |-> e, val |-> v]
NilDeref == [panic |-> TRUE, err |-> "", val |-> ""]

\* client.New fails
initK8sClientErr == {Fail("error building kubeconfig: " \o e, "nil") : e \in ErrTexts}

initK8sClient == {Ok("client")} \cup initK8sClientErr

\* client.GetCurrentContext fails
getContextInfoErr == {Fail("error loading kubeconfig: " \o e, "") : e \in ErrTexts}

getContextInfo(cl) == {Ok("prod-context")} \cup getContextInfoErr

\* client.GetNamespaces fails
getNamespacesErr == {Fail("error fetching namespaces: " \o e, <<>>) : e \in ErrTexts}

getNamespaces(cl) ==
    IF cl = "nil" THEN {NilDeref}
    ELSE {Ok(l) : l \in ClusterNamespaces} \cup getNamespacesErr

\* the namespaces a snapshot can be asked for
NsNameSet == {"default"} \cup {NsNames[i] : i \in 1..MaxNamespaces}

\* both lists fetched: return resourcesMsg{data, nil} (tabulated by namespace)
ResourcesOkOf ==
    [ns \in NsNameSet |->
        {Ok([Pods |-> PodList(ns, p), Services |-> ServiceList(ns, s)]) :
            p \in 0..MaxPods, s \in 0..MaxServices}]

getResourcesOk(ns) == ResourcesOkOf[ns]

\* client.GetPods fails (data still empty), or client.GetServices fails (data
\* holds the pods already) (tabulated by namespace)
ResourcesErrOf ==
    [ns \in NsNameSet |->
        {Fail("error fetching pods: " \o e, EmptyData) : e \in ErrTexts}
        \cup {Fail("error fetching services: " \o e,
                   [Pods |-> PodList(ns, p), Services |-> <<>>]) :
                 e \in ErrTexts, p \in 0..MaxPods}]

getResourcesErr(ns) == ResourcesErrOf[ns]

getResources(cl, ns) ==
    IF cl = "nil" THEN {NilDeref}
    ELSE getResourcesOk(ns) \cup getResourcesErr(ns)

\* client.GetPodDetail fails
getPodDetailErr == {Fail("error fetching pod details: " \o e, "") : e \in ErrTexts}

getPodDetail(cl, ns, name) ==
    IF cl = "nil" THEN {NilDeref}
    ELSE {Ok(PodDetailText(ns, name))} \cup getPodDetailErr

\* client.GetServiceDetail fails
getServiceDetailErr == {Fail("error fetching service details: " \o e, "") : e \in ErrTexts}

getServiceDetail(cl, ns, name) ==
    IF cl = "nil" THEN {NilDeref}
    ELSE {Ok(ServiceDetailText(ns, name))} \cup getServiceDetailErr

(***************************************************************************)
(* History bookkeeping.                                                    *)
(***************************************************************************)
\* the part of the Session a fetch is issued against
Before == [currentView |-> currentView, currentNS |-> currentNS,
           namespaces |-> namespaces, resourceData |-> resourceData,
           detailContent |-> detailContent]

NoIssue == [cmd |-> Cmd("", "", "", ""),
            before |-> [currentView |-> "", currentNS |-> "", namespaces |-> <<>>,
                        resourceData |-> EmptyData, detailContent |-> ""]]

\* a key handler hands command c to the runtime
Schedule(rest, c) ==
    /\ pending' = Append(rest, c)
    /\ issued' = [cmd |-> c, before |-> Before]

\* a completion handler hands the next command c to the runtime (rest: the
\* commands still in flight)
ScheduleNext(rest, c) ==
    /\ pending' = Append(rest, c)
    /\ issued' = [cmd |-> c, before |-> Before']

\* the handler returns no command
NoCmd(rest) ==
    /\ pending' = rest
    /\ issued' = NoIssue

\* New() followed by Init()
Init ==
    /\ loading = TRUE
    /\ currentView = PodView
    /\ selectedItem = 0
    /\ message = "Connecting to Kubernetes cluster..."
    /\ error = ""
    /\ client = "nil"
    /\ namespaces = <<>>
    /\ currentNS = "default"
    /\ context = ""
    /\ resourceData = EmptyData
    /\ detailContent = ""
    /\ pending = <<Cmd("initK8sClient", "nil", "", "")>>
    /\ proc = "running"
    /\ issued = [cmd |-> Cmd("initK8sClient", "nil", "", ""), before |-> Before]
    /\ sched = <<"initK8sClient">>
    /\ startup = TRUE

(***************************************************************************)
(* Model.Update, case tea.KeyMsg: one action per key.                      *)
(***************************************************************************)
\* a Go panic (index out of range, nil dereference) ends the program
Panic ==
    /\ proc' = "crashed"
    /\ UNCHANGED <<model, pending, issued, sched, startup>>

\* KeyQuit behind the test of m.loading the other keys have
KeyQuit_WhenIdle ==
    /\ proc = "running"
    /\ ~loading
    /\ proc' = "quit"
    /\ UNCHANGED <<model, pending, issued, sched, startup>>

\* case "ctrl+c", "q"
KeyQuit ==
    /\ proc = "running"
    /\ proc' = "quit"
    /\ UNCHANGED <<model, pending, issued, sched, startup>>

\* case "p"
KeyP ==
    /\ proc = "running"
    /\ IF ~loading
       THEN /\ currentView' = PodView
            /\ selectedItem' = 0
       ELSE UNCHANGED <<currentView, selectedItem>>
    /\ UNCHANGED <<loading, message, error, client, namespaces, currentNS, context,
                   resourceData, detailContent, pending, proc, issued, sched, startup>>

\* KeyS without the test of m.loading
KeyS_NoGuard ==
    /\ proc = "running"
    /\ currentView' = ServiceView
    /\ selectedItem' = 0
    /\ UNCHANGED <<loading, message, error, client, namespaces, currentNS, context,
                   resourceData, detailContent, pending, proc, issued, sched, startup>>

\* case "s"
KeyS ==
    /\ proc = "running"
    /\ IF ~loading
       THEN /\ currentView' = ServiceView
            /\ selectedItem' = 0
       ELSE UNCHANGED <<currentView, selectedItem>>
    /\ UNCHANGED <<loading, message, error, client, namespaces, currentNS, context,
                   resourceData, detailContent, pending, proc, issued, sched, startup>>

\* KeyEsc clearing the detail text when it leaves the view
KeyEsc_ClearsDetail ==
    /\ proc = "running"
    /\ IF currentView = DetailView THEN currentView' = PodView /\ detailContent' = ""
       ELSE IF currentView = NamespaceView
       THEN currentView' = PodView /\ UNCHANGED detailContent
       ELSE UNCHANGED <<currentView, detailContent>>
    /\ UNCHANGED <<loading, selectedItem, message, error, client, namespaces, currentNS,
                   context, resourceData, pending, proc, issued, sched, startup>>

\* case "esc"
KeyEsc ==
    /\ proc = "running"
    /\ IF currentView = DetailView THEN currentView' = PodView
       ELSE IF currentView = NamespaceView THEN currentView' = PodView
       ELSE UNCHANGED currentView
    /\ UNCHANGED <<loading, selectedItem, message, error, client, namespaces, currentNS,
                   context, resourceData, detailContent, pending, proc, issued, sched,
                   startup>>

\* case "up", "k"
KeyUp ==
    /\ proc = "running"
    /\ IF ~loading /\ selectedItem > 0
       THEN selectedItem' = selectedItem - 1
       ELSE UNCHANGED selectedItem
    /\ UNCHANGED <<loading, currentView, message, error, client, namespaces, currentNS,
                   context, resourceData, detailContent, pending, proc, issued, sched,
                   startup>>

\* the list the "down" handler measures for the view (none for DetailView)
ListLen(view) ==
    CASE view = PodView -> Len(resourceData.Pods)
      [] view = ServiceView -> Len(resourceData.Services)
      [] view = NamespaceView -> Len(namespaces)
      [] OTHER -> 0

\* KeyDown comparing with the length instead of the last index
KeyDown_PastEnd ==
    /\ proc = "running"
    /\ IF ~loading /\ currentView \in {PodView, ServiceView, NamespaceView}
          /\ selectedItem < ListLen(currentView)
       THEN selectedItem' = selectedItem + 1
       ELSE UNCHANGED selectedItem
    /\ UNCHANGED <<loading, currentView, message, error, client, namespaces, currentNS,
                   context, resourceData, detailContent, pending, proc, issued, sched,
                   startup>>

\* case "down", "j"
KeyDown ==
    /\ proc = "running"
    /\ IF ~loading /\ currentView \in {PodView, ServiceView, NamespaceView}
          /\ selectedItem < ListLen(currentView) - 1
       THEN selectedItem' = selectedItem + 1
       ELSE UNCHANGED selectedItem
    /\ UNCHANGED <<loading, currentView, message, error, client, namespaces, currentNS,
                   context, resourceData, detailContent, pending, proc, issued, sched,
                   startup>>

\* case "enter", resources.PodView
EnterPod ==
    IF selectedItem >= Len(resourceData.Pods)
    THEN Panic
    ELSE LET selectedPod == resourceData.Pods[selectedItem + 1] IN
         /\ currentView' = DetailView
         /\ loading' = TRUE
         /\ Schedule(pending, Cmd("getPodDetail", client, selectedPod.Namespace,
                                  selectedPod.Name))
         /\ UNCHANGED <<selectedItem, message, error, client, namespaces, currentNS,
                        context, resourceData, detailContent, proc, sched, startup>>

\* case "enter", resources.ServiceView
EnterService ==
    IF selectedItem >= Len(resourceData.Services)
    THEN Panic
    ELSE LET selectedSvc == resourceData.Services[selectedItem + 1] IN
         /\ currentView' = DetailView
         /\ loading' = TRUE
         /\ Schedule(pending, Cmd("getServiceDetail", client, selectedSvc.Namespace,
                                  selectedSvc.Name))
         /\ UNCHANGED <<selectedItem, message, error, client, namespaces, currentNS,
                        context, resourceData, detailContent, proc, sched, startup>>

\* EnterNamespace opening the detail view, as the two cases above it do
EnterNamespace_ToDetail ==
    IF selectedItem >= Len(namespaces)
    THEN Panic
    ELSE /\ currentNS' = namespaces[selectedItem + 1]
         /\ currentView' = DetailView
         /\ loading' = TRUE
         /\ message' = "Switching to namespace: " \o currentNS'
         /\ Schedule(pending, Cmd("getResources", client, currentNS', ""))
         /\ UNCHANGED <<selectedItem, error, client, namespaces, context, resourceData,
                        detailContent, proc, sched, startup>>

\* case "enter", resources.NamespaceView
EnterNamespace ==
    IF selectedItem >= Len(namespaces)
    THEN Panic
    ELSE /\ currentNS' = namespaces[selectedItem + 1]
         /\ currentView' = PodView
         /\ loading' = TRUE
         /\ message' = "Switching to namespace: " \o currentNS'
         /\ Schedule(pending, Cmd("getResources", client, currentNS', ""))
         /\ UNCHANGED <<selectedItem, error, client, namespaces, context, resourceData,
                        detailContent, proc, sched, startup>>

\* KeyEnter without the tests of m.loading
KeyEnter_NoGuard ==
    /\ proc = "running"
    /\ IF currentView = PodView /\ Len(resourceData.Pods) > 0
       THEN EnterPod
       ELSE IF currentView = ServiceView /\ Len(resourceData.Services) > 0
       THEN EnterService
       ELSE IF currentView = NamespaceView /\ Len(namespaces) > 0
       THEN EnterNamespace
       ELSE UNCHANGED vars

\* case "enter"
KeyEnter ==
    /\ proc = "running"
    /\ IF ~loading /\ currentView = PodView /\ Len(resourceData.Pods) > 0
       THEN EnterPod
       ELSE IF ~loading /\ currentView = ServiceView /\ Len(resourceData.Services) > 0
       THEN EnterService
       ELSE IF ~loading /\ currentView = NamespaceView /\ Len(namespaces) > 0
       THEN EnterNamespace
       ELSE UNCHANGED vars

\* KeyR without the test of m.loading
KeyR_NoGuard ==
    /\ proc = "running"
    /\ loading' = TRUE
    /\ message' = "Refreshing resources..."
    /\ Schedule(pending, Cmd("getResources", client, currentNS, ""))
    /\ UNCHANGED <<currentView, selectedItem, error, client, namespaces, currentNS,
                   context, resourceData, detailContent, proc, sched, startup>>

\* case "r"
KeyR ==
    /\ proc = "running"
    /\ IF ~loading
       THEN /\ loading' = TRUE
            /\ message' = "Refreshing resources..."
            /\ Schedule(pending, Cmd("getResources", client, currentNS, ""))
       ELSE UNCHANGED <<loading, message, pending, issued>>
    /\ UNCHANGED <<currentView, selectedItem, error, client, namespaces, currentNS,
                   context, resourceData, detailContent, proc, sched, startup>>

\* the index "n" selects: the first position of currentNS in namespaces, else the
\* index already selected
FindNS ==
    IF \E i \in 1..Len(namespaces) : namespaces[i] = currentNS
    THEN (CHOOSE i \in 1..Len(namespaces) :
              /\ namespaces[i] = currentNS
              /\ \A j \in 1..(i - 1) : namespaces[j] # currentNS) - 1
    ELSE selectedItem

\* case "n"
KeyN ==
    /\ proc = "running"
    /\ IF ~loading
       THEN /\ currentView' = NamespaceView
            /\ selectedItem' = FindNS
       ELSE UNCHANGED <<currentView, selectedItem>>
    /\ UNCHANGED <<loading, message, error, client, namespaces, currentNS, context,
                   resourceData, detailContent, pending, proc, issued, sched, startup>>

(***************************************************************************)
(* Model.Update, the completion messages.  rest: the commands still in     *)
(* flight once the one that delivered msg is gone.                         *)
(***************************************************************************)
\* case k8sClientMsg
OnK8sClientMsg(msg, rest) ==
    IF msg.err # ""
    THEN /\ loading' = FALSE
         /\ error' = "Error connecting to Kubernetes: " \o msg.err
         /\ NoCmd(rest)
         /\ startup' = FALSE
         /\ UNCHANGED <<currentView, selectedItem, message, client, namespaces, currentNS,
                        context, resourceData, detailContent, proc, sched>>
    ELSE /\ client' = msg.val
         /\ message' = "Getting context information..."
         /\ UNCHANGED <<loading, currentView, selectedItem, error, namespaces, currentNS,
                        context, resourceData, detailContent, proc, startup>>
         /\ ScheduleNext(rest, Cmd("getContextInfo", client', "", ""))
         /\ sched' = Append(sched, "getContextInfo")

\* OnContextInfoMsg going straight to the snapshot, the namespace list skipped
OnContextInfoMsg_SkipNamespaces(msg, rest) ==
    /\ context' = IF msg.err # "" THEN "unknown-context" ELSE msg.val
    /\ message' = "Fetching resources..."
    /\ UNCHANGED <<loading, currentView, selectedItem, error, client, namespaces,
                   currentNS, resourceData, detailContent, proc, startup>>
    /\ ScheduleNext(rest, Cmd("getResources", client, currentNS, ""))
    /\ sched' = Append(sched, "getResources")

\* OnContextInfoMsg treating msg.err as the other startup handlers do
OnContextInfoMsg_Fatal(msg, rest) ==
    IF msg.err # ""
    THEN /\ loading' = FALSE
         /\ error' = "Error getting context: " \o msg.err
         /\ NoCmd(rest)
         /\ startup' = FALSE
         /\ UNCHANGED <<currentView, selectedItem, message, client, namespaces, currentNS,
                        context, resourceData, detailContent, proc, sched>>
    ELSE /\ context' = msg.val
         /\ message' = "Fetching namespaces..."
         /\ UNCHANGED <<loading, currentView, selectedItem, error, client, namespaces,
                        currentNS, resourceData, detailContent, proc, startup>>
         /\ ScheduleNext(rest, Cmd("getNamespaces", client, "", ""))
         /\ sched' = Append(sched, "getNamespaces")

\* case contextInfoMsg
OnContextInfoMsg(msg, rest) ==
    /\ context' = IF msg.err # "" THEN "unknown-context" ELSE msg.val
    /\ message' = "Fetching namespaces..."
    /\ UNCHANGED <<loading, currentView, selectedItem, error, client, namespaces,
                   currentNS, resourceData, detailContent, proc, startup>>
    /\ ScheduleNext(rest, Cmd("getNamespaces", client, "", ""))
    /\ sched' = Append(sched, "getNamespaces")

\* OnNamespacesMsg going on to the snapshot without storing msg.namespaces
OnNamespacesMsg_DropsList(msg, rest) ==
    IF msg.err # ""
    THEN /\ loading' = FALSE
         /\ error' = "Error fetching namespaces: " \o msg.err
         /\ NoCmd(rest)
         /\ startup' = FALSE
         /\ UNCHANGED <<currentView, selectedItem, message, client, namespaces, currentNS,
                        context, resourceData, detailContent, proc, sched>>
    ELSE /\ message' = "Fetching resources..."
         /\ UNCHANGED <<loading, currentView, selectedItem, error, client, namespaces,
                        currentNS, context, resourceData, detailContent, proc, startup>>
         /\ ScheduleNext(rest, Cmd("getResources", client, currentNS, ""))
         /\ sched' = Append(sched, "getResources")

\* case namespacesMsg
OnNamespacesMsg(msg, rest) ==
    IF msg.err # ""
    THEN /\ loading' = FALSE
         /\ error' = "Error fetching namespaces: " \o msg.err
         /\ NoCmd(rest)
         /\ startup' = FALSE
         /\ UNCHANGED <<currentView, selectedItem, message, client, namespaces, currentNS,
                        context, resourceData, detailContent, proc, sched>>
    ELSE /\ namespaces' = msg.val
         /\ message' = "Fetching resources..."
         /\ UNCHANGED <<loading, currentView, selectedItem, error, client, currentNS,
                        context, resourceData, detailContent, proc, startup>>
         /\ ScheduleNext(rest, Cmd("getResources", client, currentNS, ""))
         /\ sched' = Append(sched, "getResources")

\* OnResourcesMsg storing msg.data before it tests msg.err
OnResourcesMsg_KeepsPartial(msg, rest) ==
    /\ loading' = FALSE
    /\ resourceData' = msg.val
    /\ IF msg.err # ""
       THEN error' = "Error fetching resources: " \o msg.err
       ELSE UNCHANGED error
    /\ NoCmd(rest)
    /\ startup' = FALSE
    /\ UNCHANGED <<currentView, selectedItem, message, client, namespaces, currentNS,
                   context, detailContent, proc, sched>>

\* OnResourcesMsg storing msg.err as it came, without the prefix
OnResourcesMsg_BareError(msg, rest) ==
    /\ loading' = FALSE
    /\ IF msg.err # ""
       THEN /\ error' = msg.err
            /\ UNCHANGED resourceData
       ELSE /\ resourceData' = msg.val
            /\ UNCHANGED error
    /\ NoCmd(rest)
    /\ startup' = FALSE
    /\ UNCHANGED <<currentView, selectedItem, message, client, namespaces, currentNS,
                   context, detailContent, proc, sched>>

\* case resourcesMsg
OnResourcesMsg(msg, rest) ==
    /\ loading' = FALSE
    /\ IF msg.err # ""
       THEN /\ error' = "Error fetching resources: " \o msg.err
            /\ UNCHANGED resourceData
       ELSE /\ resourceData' = msg.val
            /\ UNCHANGED error
    /\ NoCmd(rest)
    /\ startup' = FALSE
    /\ UNCHANGED <<currentView, selectedItem, message, client, namespaces, currentNS,
                   context, detailContent, proc, sched>>

\* OnPodDetailMsg storing msg.detail before it tests msg.err
OnPodDetailMsg_ClearsDetail(msg, rest) ==
    /\ loading' = FALSE
    /\ detailContent' = msg.val
    /\ IF msg.err # ""
       THEN error' = "Error fetching pod details: " \o msg.err
       ELSE UNCHANGED error
    /\ NoCmd(rest)
    /\ UNCHANGED <<currentView, selectedItem, message, client, namespaces, currentNS,
                   context, resourceData, proc, sched, startup>>

\* case podDetailMsg
OnPodDetailMsg(msg, rest) ==
    /\ loading' = FALSE
    /\ IF msg.err # ""
       THEN /\ error' = "Error fetching pod details: " \o msg.err
            /\ UNCHANGED detailContent
       ELSE /\ detailContent' = msg.val
            /\ UNCHANGED error
    /\ NoCmd(rest)
    /\ UNCHANGED <<currentView, selectedItem, message, client, namespaces, currentNS,
                   context, resourceData, proc, sched, startup>>

\* OnServiceDetailMsg adding its failure to the error already held
OnServiceDetailMsg_AppendsError(msg, rest) ==
    /\ loading' = FALSE
    /\ IF msg.err # ""
       THEN /\ error' = IF error = ""
                        THEN "Error fetching service details: " \o msg.err
                        ELSE error \o "; Error fetching service details: " \o msg.err
            /\ UNCHANGED detailContent
       ELSE /\ detailContent' = msg.val
            /\ UNCHANGED error
    /\ NoCmd(rest)
    /\ UNCHANGED <<currentView, selectedItem, message, client, namespaces, currentNS,
                   context, resourceData, proc, sched, startup>>

\* case serviceDetailMsg
OnServiceDetailMsg(msg, rest) ==
    /\ loading' = FALSE
    /\ IF msg.err # ""
       THEN /\ error' = "Error fetching service details: " \o msg.err
            /\ UNCHANGED detailContent
       ELSE /\ detailContent' = msg.val
            /\ UNCHANGED error
    /\ NoCmd(rest)
    /\ UNCHANGED <<currentView, selectedItem, message, client, namespaces, currentNS,
                   context, resourceData, proc, sched, startup>>

(***************************************************************************)
(* Model.View: the frame rendered for the Session, as the renderer called, *)
(* the fields of the Session handed to it and the text added after it.     *)
(***************************************************************************)
\* contextInfo := fmt.Sprintf(" (Context: %s)", m.context)
contextInfo == " (Context: " \o context \o ")"

View ==
    IF loading
    THEN [render |-> "RenderLoadingView", args |-> <<message>>, suffix |-> ""]
    ELSE IF error # ""
    THEN [render |-> "RenderErrorView", args |-> <<error>>, suffix |-> ""]
    ELSE CASE currentView = PodView ->
                [render |-> "RenderPodsView",
                 args |-> <<resourceData.Pods, selectedItem, currentNS>>,
                 suffix |-> contextInfo]
           [] currentView = ServiceView ->
                [render |-> "RenderServicesView",
                 args |-> <<resourceData.Services, selectedItem, currentNS>>,
                 suffix |-> contextInfo]
           [] currentView = DetailView ->
                [render |-> "RenderPodDetailView", args |-> <<detailContent>>,
                 suffix |-> ""]
           [] currentView = NamespaceView ->
                [render |-> "RenderNamespacesView", args |-> <<namespaces, selectedItem>>,
                 suffix |-> ""]
           [] OTHER ->
                [render |-> "Unknown view", args |-> <<>>, suffix |-> ""]

(***************************************************************************)
(* The runtime runs a scheduled command and feeds its message to Update.   *)
(***************************************************************************)
Remove(s, i) == SubSeq(s, 1, i - 1) \o SubSeq(s, i + 1, Len(s))

\* the command panicked: the program dies with the command gone
CmdPanic(rest) ==
    /\ proc' = "crashed"
    /\ NoCmd(rest)
    /\ UNCHANGED <<model, sched, startup>>

RunInitK8sClient ==
    /\ proc = "running"
    /\ \E i \in 1..Len(pending) :
          /\ pending[i].cmd = "initK8sClient"
          /\ \E msg \in initK8sClient : OnK8sClientMsg(msg, Remove(pending, i))

RunGetContextInfo ==
    /\ proc = "running"
    /\ \E i \in 1..Len(pending) :
          /\ pending[i].cmd = "getContextInfo"
          /\ \E msg \in getContextInfo(pending[i].client) :
                OnContextInfoMsg(msg, Remove(pending, i))

RunGetNamespaces ==
    /\ proc = "running"
    /\ \E i \in 1..Len(pending) :
          /\ pending[i].cmd = "getNamespaces"
          /\ \E msg \in getNamespaces(pending[i].client) :
                IF msg.panic THEN CmdPanic(Remove(pending, i))
                ELSE OnNamespacesMsg(msg, Remove(pending, i))

RunGetResources ==
    /\ proc = "running"
    /\ \E i \in 1..Len(pending) :
          /\ pending[i].cmd = "getResources"
          /\ \E msg \in getResources(pending[i].client, pending[i].ns) :
                IF msg.panic THEN CmdPanic(Remove(pending, i))
                ELSE OnResourcesMsg(msg, Remove(pending, i))

RunGetPodDetail ==
    /\ proc = "running"
    /\ \E i \in 1..Len(pending) :
          /\ pending[i].cmd = "getPodDetail"
          /\ \E msg \in getPodDetail(pending[i].client, pending[i].ns, pending[i].name) :
                IF msg.panic THEN CmdPanic(Remove(pending, i))
                ELSE OnPodDetailMsg(msg, Remove(pending, i))

RunGetServiceDetail ==
    /\ proc = "running"
    /\ \E i \in 1..Len(pending) :
          /\ pending[i].cmd = "getServiceDetail"
          /\ \E msg \in getServiceDetail(pending[i].client, pending[i].ns,
                                         pending[i].name) :
                IF msg.panic THEN CmdPanic(Remove(pending, i))
                ELSE OnServiceDetailMsg(msg, Remove(pending, i))

Next ==
    \/ KeyQuit
    \/ KeyP
    \/ KeyS
    \/ KeyEsc
    \/ KeyUp
    \/ KeyDown
    \/ KeyEnter
    \/ KeyR
    \/ KeyN
    \/ RunInitK8sClient
    \/ RunGetContextInfo
    \/ RunGetNamespaces
    \/ RunGetResources
    \/ RunGetPodDetail
    \/ RunGetServiceDetail

Spec == Init /\ [][Next]_vars

\* the runtime runs every command it was handed and delivers its message: a
\* command in flight is not left waiting forever
Fairness ==
    /\ WF_vars(RunInitK8sClient)
    /\ WF_vars(RunGetContextInfo)
    /\ WF_vars(RunGetNamespaces)
    /\ WF_vars(RunGetResources)
    /\ WF_vars(RunGetPodDetail)
    /\ WF_vars(RunGetServiceDetail)

FairSpec == Spec /\ Fairness

(***************************************************************************)
(* Steps named for the properties below.                                   *)
(***************************************************************************)
\* any key other than quit is processed
KeyNotQuit ==
    KeyP \/ KeyS \/ KeyEsc \/ KeyUp \/ KeyDown \/ KeyEnter \/ KeyR \/ KeyN

\* any of the nine keys is processed
AnyKey == KeyQuit \/ KeyNotQuit

\* the list selectedItem indexes in the current view (DetailView has none)
HasList == currentView \in {PodView, ServiceView, NamespaceView}

\* the data entities of the Session
Data == <<namespaces, resourceData, detailContent>>

\* a command leaves flight: every completion takes its command out of pending
\* (tested first in the step predicates below, which spares evaluating the
\* handlers on the steps that are no completion)
Completion == pending # <<>> /\ pending' # pending

(***************************************************************************)
(* C1: in every reachable state selectedItem is within [0, length of the   *)
(* list of the current view), or 0 when that list is empty.                *)
(* Refuted by the code: a refresh that returns a shorter list, esc from a  *)
(* detail entered from the services list and a namespace switch all keep   *)
(* the old index.                                                          *)
(***************************************************************************)
C1_SelectedInRange ==
    HasList =>
        IF ListLen(currentView) = 0
        THEN selectedItem = 0
        ELSE selectedItem \in 0..(ListLen(currentView) - 1)

(***************************************************************************)
(* C2: a successful snapshot or detail completion stores the fetched value *)
(* and leaves loading FALSE and error empty, whatever error was before     *)
(* (the step of a successful completion is the one whose handler, given    *)
(* the value now stored, produces the new state).                          *)
(* Refuted by the code: no handler ever clears Model.error.                *)
(***************************************************************************)
C2_SuccessClearsError ==
    [][Completion => \A i \in 1..Len(pending) :
          /\ (/\ pending[i].cmd = "getResources"
              /\ Ok(resourceData') \in getResources(pending[i].client, pending[i].ns)
              /\ OnResourcesMsg(Ok(resourceData'), Remove(pending, i)))
             => (~loading' /\ error' = "")
          /\ (/\ pending[i].cmd = "getPodDetail"
              /\ Ok(detailContent') \in getPodDetail(pending[i].client, pending[i].ns,
                                                     pending[i].name)
              /\ OnPodDetailMsg(Ok(detailContent'), Remove(pending, i)))
             => (~loading' /\ error' = "")
          /\ (/\ pending[i].cmd = "getServiceDetail"
              /\ Ok(detailContent') \in getServiceDetail(pending[i].client, pending[i].ns,
                                                         pending[i].name)
              /\ OnServiceDetailMsg(Ok(detailContent'), Remove(pending, i)))
             => (~loading' /\ error' = "")
      ]_vars

(***************************************************************************)
(* C3: at most one command is in flight, loading is TRUE whenever one is,  *)
(* and the one in flight is the command scheduled last, so every           *)
(* completion Update processes answers the latest request.                 *)
(***************************************************************************)
C3_SingleFlight ==
    /\ Len(pending) <= 1
    /\ pending # <<>> => (loading /\ pending[1] = issued.cmd)

\* a fetch a key scheduled is in flight
C3_Witness ==
    /\ pending # <<>>
    /\ pending[1].cmd \in {"getPodDetail", "getServiceDetail"}
    /\ proc = "running"

(***************************************************************************)
(* C4: whichever of the nine keys is processed while loading is TRUE, no   *)
(* command is scheduled: a step that changes the commands in flight is no  *)
(* key processed while loading.                                            *)
(***************************************************************************)
C4_NoFetchWhileLoading ==
    [][pending' # pending => ~(loading /\ AnyKey)]_vars

\* keys were processed while a fetch was in flight: esc left the detail view,
\* then quit ended the program, and the fetch is still the only one
C4_Witness ==
    /\ proc = "quit"
    /\ loading
    /\ Len(pending) = 1
    /\ pending[1].cmd = "getPodDetail"
    /\ currentView = PodView

(***************************************************************************)
(* C5: while loading is TRUE every key other than quit leaves the view,    *)
(* the selection, the namespace and the data unchanged.                    *)
(* Refuted by the code: case "esc" does not test m.loading.                *)
(***************************************************************************)
C5_InertWhileLoading ==
    [][(loading /\ KeyNotQuit)
         => UNCHANGED <<currentView, selectedItem, currentNS, Data>>]_vars

(***************************************************************************)
(* C6: at startup the commands are issued in the order connection,         *)
(* context, namespace list, snapshot for currentNS; each is scheduled by   *)
(* the completion of the one before it and at most once; loading stays     *)
(* TRUE until the sequence ends, which only a snapshot completion, a       *)
(* connection failure or a namespace-list failure does.                    *)
(***************************************************************************)
StartupOrder == <<"initK8sClient", "getContextInfo", "getNamespaces", "getResources">>

IsPrefix(s, t) == Len(s) <= Len(t) /\ s = SubSeq(t, 1, Len(s))

C6_StartupInv ==
    /\ sched # <<>>
    /\ IsPrefix(sched, StartupOrder)
    /\ startup =>
          /\ loading
          /\ Len(pending) = 1
          /\ pending[1].cmd = sched[Len(sched)]
          /\ pending[1].cmd = "getResources" => pending[1].ns = currentNS

C6_StartupStep ==
    /\ sched' # sched =>
          /\ startup /\ startup'
          /\ pending[1].cmd = sched[Len(sched)]
          /\ Len(sched') = Len(sched) + 1
          /\ Len(pending') = 1
          /\ pending'[1].cmd = sched'[Len(sched')]
    /\ (startup /\ ~startup') =>
          /\ ~loading'
          /\ pending' = <<>>
          /\ sched' = sched
          /\ \/ sched[Len(sched)] = "getResources"
             \/ sched[Len(sched)] \in {"initK8sClient", "getNamespaces"} /\ error' # ""
    /\ ~startup => ~startup'

C6_StartupOrder == []C6_StartupInv /\ [][C6_StartupStep]_vars

\* the whole sequence ran and ended with the snapshot stored
C6_Witness ==
    /\ ~startup
    /\ sched = StartupOrder
    /\ ~loading
    /\ error = ""
    /\ resourceData # EmptyData

(***************************************************************************)
(* C7: a connection failure stops the startup sequence with error set and  *)
(* loading cleared, and from then on no key other than quit changes the    *)
(* Session or schedules a fetch.                                           *)
(* Refuted by the code: the failure clears loading, which re-enables every *)
(* key handler; "r" then schedules getResources with a nil client.         *)
(***************************************************************************)
ConnFailed == client = "nil" /\ error # ""

ConnFailure ==
    Completion /\ \E i \in 1..Len(pending) :
        /\ pending[i].cmd = "initK8sClient"
        /\ \E msg \in initK8sClientErr : OnK8sClientMsg(msg, Remove(pending, i))

C7_ConnFailureTerminal ==
    [][/\ ConnFailure => (~loading' /\ error' # "" /\ pending' = <<>>)
       /\ (ConnFailed /\ KeyNotQuit) => UNCHANGED <<model, pending>>
      ]_vars

(***************************************************************************)
(* C8 (as claimed): when a namespace-list, snapshot or detail fetch fails, *)
(* the Session has loading FALSE, error set, and view, namespace and data  *)
(* equal to their values just before the input that issued the fetch.      *)
(* Refuted by the code: "enter" has already moved the view (and in the     *)
(* namespace list also currentNS), and the failure does not move it back.  *)
(***************************************************************************)
FetchFailure ==
    Completion /\ \E i \in 1..Len(pending) :
        /\ pending[i].client # "nil"
        /\ \/ /\ pending[i].cmd = "getNamespaces"
              /\ \E msg \in getNamespacesErr : OnNamespacesMsg(msg, Remove(pending, i))
           \/ /\ pending[i].cmd = "getResources"
              /\ \E msg \in getResourcesErr(pending[i].ns) :
                    OnResourcesMsg(msg, Remove(pending, i))
           \/ /\ pending[i].cmd = "getPodDetail"
              /\ \E msg \in getPodDetailErr : OnPodDetailMsg(msg, Remove(pending, i))
           \/ /\ pending[i].cmd = "getServiceDetail"
              /\ \E msg \in getServiceDetailErr :
                    OnServiceDetailMsg(msg, Remove(pending, i))

SnapshotFailure ==
    Completion /\ \E i \in 1..Len(pending) :
        /\ pending[i].cmd = "getResources"
        /\ pending[i].client # "nil"
        /\ \E msg \in getResourcesErr(pending[i].ns) :
              OnResourcesMsg(msg, Remove(pending, i))

SnapshotSuccess ==
    Completion /\ \E i \in 1..Len(pending) :
        /\ pending[i].cmd = "getResources"
        /\ pending[i].client # "nil"
        /\ OnResourcesMsg(Ok(resourceData'), Remove(pending, i))

C9_FailedSnapshotKeepsData ==
    [][/\ SnapshotFailure =>
            /\ resourceData' = resourceData
            /\ resourceData' = issued.before.resourceData
       /\ resourceData' # resourceData => SnapshotSuccess
      ]_vars

\* the services failed after the pods were listed, and the snapshot held is
\* still the complete earlier one
C9_Witness ==
    /\ \E e \in ErrTexts :
          error = "Error fetching resources: error fetching services: " \o e
    /\ ~loading
    /\ resourceData.Pods # <<>>
    /\ resourceData.Services # <<>>

(***************************************************************************)
(* C10: "enter" in the namespace list, when not loading and the list is    *)
(* non-empty, sets currentNS to the name at selectedItem, resets           *)
(* selectedItem to 0, sets loading, schedules exactly one snapshot fetch   *)
(* for the new namespace and moves to the pods view.                       *)
(* Refuted by the code: the handler never assigns m.selectedItem.          *)
(***************************************************************************)
C10_ActivateNamespace ==
    [][(~loading /\ currentView = NamespaceView /\ Len(namespaces) > 0
          /\ selectedItem < Len(namespaces) /\ KeyEnter) =>
          /\ currentNS' = namespaces[selectedItem + 1]
          /\ selectedItem' = 0
          /\ loading'
          /\ pending' = Append(pending, Cmd("getResources", client, currentNS', ""))
          /\ currentView' = PodView
      ]_vars

(***************************************************************************)
(* C11: "n", when not loading, moves to the namespace list and sets        *)
(* selectedItem to the index of currentNS in namespaces, or to 0 when      *)
(* currentNS is not in the list (an empty list included), whatever         *)
(* selectedItem was before.                                                *)
(* Refuted by the code: the loop assigns m.selectedItem only when it finds *)
(* currentNS; otherwise the index of the previous view is kept.            *)
(***************************************************************************)
\* the index of currentNS in namespaces, 0 when it is absent
IndexOfCurrentNS ==
    IF \E i \in 1..Len(namespaces) : namespaces[i] = currentNS
    THEN (CHOOSE i \in 1..Len(namespaces) : namespaces[i] = currentNS) - 1
    ELSE 0

C11_PickerSelectsCurrent ==
    [][(~loading /\ KeyN) =>
          /\ currentView' = NamespaceView
          /\ selectedItem' = IndexOfCurrentNS
      ]_vars

(***************************************************************************)
(* C12: whenever loading is FALSE, the snapshot held was fetched for the   *)
(* namespace currentNS names: every pod and service of resourceData is of  *)
(* currentNS.                                                              *)
(* Refuted by the code: "enter" in the namespace list assigns currentNS    *)
(* before the fetch; when that fetch fails, the snapshot of the previous   *)
(* namespace stays under the new currentNS.                                *)
(***************************************************************************)
C12_SnapshotOfCurrentNS ==
    ~loading =>
        /\ \A i \in 1..Len(resourceData.Pods) :
              resourceData.Pods[i].Namespace = currentNS
        /\ \A i \in 1..Len(resourceData.Services) :
              resourceData.Services[i].Namespace = currentNS

(***************************************************************************)
(* C13: currentView is always one of the four views and changes only along *)
(* the edges of the transition table: to the detail view only by "enter"   *)
(* from the pods or services list, to the namespace list only by "n", and  *)
(* never from the namespace list straight to the detail view.              *)
(***************************************************************************)
C13_Edge ==
    currentView' # currentView =>
        \/ currentView' = PodView /\ KeyP
        \/ currentView' = ServiceView /\ KeyS
        \/ currentView' = PodView /\ currentView \in {DetailView, NamespaceView} /\ KeyEsc
        \/ currentView' = DetailView /\ currentView \in {PodView, ServiceView} /\ KeyEnter
        \/ currentView' = PodView /\ currentView = NamespaceView /\ KeyEnter
        \/ currentView' = NamespaceView /\ KeyN

C13_ViewEdges == [](currentView \in ViewType) /\ [][C13_Edge]_vars

\* the detail view was entered and left, and the namespace list is open
C13_Witness ==
    /\ currentView = NamespaceView
    /\ detailContent # ""
    /\ ~loading

(***************************************************************************)
(* C14: "up" and "down" keep selectedItem within the list of the current   *)
(* view: from a selection in range, "up" gives max(0, selectedItem - 1)    *)
(* and "down" gives min(len - 1, selectedItem + 1); on an empty list       *)
(* selectedItem stays 0 and "enter" changes no state and schedules no      *)
(* fetch.                                                                  *)
(***************************************************************************)
\* selectedItem indexes the list of the current view (0 on an empty list)
SelectionInRange ==
    /\ HasList
    /\ \/ selectedItem \in 0..(ListLen(currentView) - 1)
       \/ ListLen(currentView) = 0 /\ selectedItem = 0

MaxOf(a, b) == IF a >= b THEN a ELSE b

MinOf(a, b) == IF a <= b THEN a ELSE b

C14_Move ==
    /\ (SelectionInRange /\ (KeyUp \/ KeyDown)) => SelectionInRange'
    /\ (SelectionInRange /\ ~loading /\ KeyUp) =>
           selectedItem' = MaxOf(0, selectedItem - 1)
    /\ (SelectionInRange /\ ~loading /\ KeyDown) =>
           selectedItem' = IF ListLen(currentView) = 0
                           THEN 0
                           ELSE MinOf(ListLen(currentView) - 1, selectedItem + 1)
    /\ (HasList /\ ListLen(currentView) = 0 /\ KeyEnter) => UNCHANGED vars

C14_SelectionBound == [][C14_Move]_vars

\* "down" has moved the selection to the last item of a list of two
C14_Witness ==
    /\ ~loading
    /\ HasList
    /\ ListLen(currentView) = 2
    /\ selectedItem = 1

(***************************************************************************)
(* C15: a failed context resolution at startup is not fatal: context       *)
(* becomes "unknown-context", error is not set, loading stays TRUE, and    *)
(* the namespace fetch is scheduled exactly as after a successful          *)
(* resolution.                                                             *)
(***************************************************************************)
\* the command a contextInfoMsg is answered with, whatever the message holds
AfterContextInfo == <<Cmd("getNamespaces", client, "", "")>>

C15_Step ==
    (Completion /\ pending[1].cmd = "getContextInfo") =>
        /\ \A msg \in getContextInfoErr :
              OnContextInfoMsg(msg, <<>>) =>
                  /\ context' = "unknown-context"
                  /\ error' = "" /\ error = ""
                  /\ loading /\ loading'
                  /\ pending' = AfterContextInfo
                  /\ proc' = "running"
        /\ OnContextInfoMsg(Ok("prod-context"), <<>>) =>
              /\ context' = "prod-context"
              /\ pending' = AfterContextInfo

C15_ContextFailureNonFatal == [][C15_Step]_vars

\* startup went on to its end after the context could not be resolved
C15_Witness ==
    /\ context = "unknown-context"
    /\ error = ""
    /\ ~loading
    /\ namespaces # <<>>
    /\ resourceData # EmptyData

(***************************************************************************)
(* C16: happy path.  When the connection, the context resolution, the      *)
(* namespace fetch and the snapshot fetch for "default" succeed in turn,   *)
(* the Session ends in the pods list with loading FALSE, error empty and   *)
(* currentNS "default", and namespaces and resourceData equal to the       *)
(* values fetched.                                                         *)
(***************************************************************************)
C16_Step ==
    /\ (Completion /\ startup /\ pending[1].cmd = "getNamespaces") =>
           \A l \in ClusterNamespaces :
               OnNamespacesMsg(Ok(l), <<>>) =>
                   /\ namespaces' = l
                   /\ pending' = <<Cmd("getResources", client, "default", "")>>
    /\ (Completion /\ startup /\ context = "prod-context"
          /\ pending[1].cmd = "getResources") =>
           \A msg \in getResourcesOk("default") :
               OnResourcesMsg(msg, <<>>) =>
                   /\ resourceData' = msg.val
                   /\ namespaces' = namespaces
                   /\ currentView' = PodView
                   /\ ~loading'
                   /\ error' = ""
                   /\ currentNS' = "default"
                   /\ selectedItem' = 0
                   /\ client' = "client"
                   /\ pending' = <<>>
                   /\ proc' = "running"
                   /\ ~startup'

C16_HappyPath == [][C16_Step]_vars

\* the end of the spec's scenario: two namespaces, two pods and one service
\* fetched, and no key pressed since
C16_Witness ==
    /\ ~startup
    /\ sched = StartupOrder
    /\ context = "prod-context"
    /\ namespaces = <<"default", "kube-system">>
    /\ resourceData = [Pods |-> PodList("default", 2),
                       Services |-> ServiceList("default", 1)]
    /\ currentView = PodView
    /\ ~loading
    /\ error = ""
    /\ currentNS = "default"
    /\ message = "Fetching resources..."
    /\ proc = "running"

(***************************************************************************)
(* C17: "esc" in the detail view or the namespace list moves to the pods   *)
(* list and changes nothing else: detailContent (not cleared),             *)
(* resourceData, namespaces and currentNS stay as they were and no fetch   *)
(* is scheduled; "esc" in the pods or services list changes nothing.       *)
(***************************************************************************)
C17_Step ==
    KeyEsc =>
        /\ currentView \in {DetailView, NamespaceView} => currentView' = PodView
        /\ currentView \in {PodView, ServiceView} => currentView' = currentView
        /\ UNCHANGED <<Data, currentNS, pending, loading, selectedItem, message, error,
                       client, context, proc>>

C17_BackKeepsData == [][C17_Step]_vars

\* back in the pods list with the detail text fetched earlier still held
C17_Witness ==
    /\ currentView = PodView
    /\ detailContent # ""
    /\ selectedItem = 1
    /\ ~loading

(***************************************************************************)
(* C18: after the happy path "r" sets loading; when that fetch fails with  *)
(* the message "timeout", the Session has error = "timeout" and loading    *)
(* FALSE, and the snapshot of two pods is still held.                      *)
(* The code does not store the failure text as it is: it stores "Error     *)
(* fetching resources: " followed by the error of the fetch, which itself  *)
(* is "error fetching pods: " or "error fetching services: " followed by   *)
(* the text.  C18_RefreshFailureBare is the claim as stated,               *)
(* C18_RefreshFailurePrefixed the statement with the text the code stores. *)
(***************************************************************************)
\* the refresh of a Session that finished the happy path with two pods
RefreshInFlight ==
    /\ Completion
    /\ ~startup
    /\ pending[1].cmd = "getResources"
    /\ message = "Refreshing resources..."
    /\ error = ""
    /\ Len(resourceData.Pods) = 2

RefreshSetsLoading ==
    (~loading /\ KeyR) =>
        /\ loading'
        /\ pending' = <<Cmd("getResources", client, currentNS, "")>>

C18_RefreshFailureBare ==
    [][/\ RefreshSetsLoading
       /\ RefreshInFlight =>
             \A msg \in getResourcesErr(currentNS) :
                 OnResourcesMsg(msg, <<>>) =>
                     /\ error' \in ErrTexts
                     /\ ~loading'
                     /\ resourceData' = resourceData
      ]_vars

C18_RefreshFailurePrefixed ==
    [][/\ RefreshSetsLoading
       /\ RefreshInFlight =>
             \A msg \in getResourcesErr(currentNS) :
                 OnResourcesMsg(msg, <<>>) =>
                     /\ error' = "Error fetching resources: " \o msg.err
                     /\ \E e \in ErrTexts :
                           msg.err \in {"error fetching pods: " \o e,
                                        "error fetching services: " \o e}
                     /\ ~loading'
                     /\ resourceData' = resourceData
                     /\ Len(resourceData'.Pods) = 2
      ]_vars

\* the refresh failed and the two pods fetched at startup are still held
C18_Witness ==
    /\ error = "Error fetching resources: error fetching pods: timeout"
    /\ ~loading
    /\ message = "Refreshing resources..."
    /\ namespaces = <<"default", "kube-system">>
    /\ resourceData = [Pods |-> PodList("default", 2),
                       Services |-> ServiceList("default", 1)]

(***************************************************************************)
(* C19: "q" is accepted in every state, whatever currentView, loading and  *)
(* error are: it makes the program quit and changes no field of the        *)
(* Session.                                                                *)
(***************************************************************************)
C19_QuitAlways ==
    /\ [](proc = "running" => ENABLED KeyQuit)
    /\ [][KeyQuit => proc' = "quit" /\ UNCHANGED <<model, pending>>]_vars

\* quit while a detail fetch is in flight and an error is set
C19_Witness ==
    /\ proc = "quit"
    /\ loading
    /\ error # ""
    /\ currentView = DetailView

(***************************************************************************)
(* C20: when every fetch in flight completes in the end (FairSpec),        *)
(* loading is eventually FALSE: startup ends in an interactive state, and  *)
(* every "enter" or "r" that sets loading is followed by a state with      *)
(* loading FALSE.  A program the user has quit is left out: "q" ends it    *)
(* with loading as it was.                                                 *)
(* Refuted by the code: after a failed connection "r" sets loading and     *)
(* schedules getResources with the nil client; the command panics in       *)
(* c.Clientset and the program dies with loading still TRUE.               *)
(***************************************************************************)
C20_LoadingEnds == (loading /\ proc = "running") ~> (~loading \/ proc = "quit")

(***************************************************************************)
(* C21: "enter" never reads a list element at an index outside the list:   *)
(* in every reachable state where "enter" is accepted (not loading, a list *)
(* view, the list not empty) selectedItem is less than the length of the   *)
(* list, so "enter" never panics.                                          *)
(* Refuted by the code: resourcesMsg, esc, "n" and the namespace switch    *)
(* leave selectedItem as it was while the list it indexes shrinks or       *)
(* changes; the next "enter" indexes past the end.                         *)
(***************************************************************************)
\* "enter" passes its tests and indexes the list of the current view
ActivateAccepted ==
    /\ proc = "running"
    /\ ~loading
    /\ HasList
    /\ ListLen(currentView) > 0

C21_ActivateInRange ==
    /\ [](ActivateAccepted => selectedItem < ListLen(currentView))
    /\ [][KeyEnter => proc' = "running"]_vars

(***************************************************************************)
(* C22: every snapshot or detail fetch is issued with an established       *)
(* client: no command in flight that needs the client holds the nil one.   *)
(* Refuted by the code: a failed connection clears loading and leaves      *)
(* m.client nil, and "r" passes it to getResources without a test.         *)
(***************************************************************************)
NeedsClient == {"getResources", "getPodDetail", "getServiceDetail"}

C22_FetchHasClient ==
    \A i \in 1..Len(pending) :
        pending[i].cmd \in NeedsClient => pending[i].client # "nil"

(***************************************************************************)
(* C23: a key that does not meet its precondition is a silent no-op:       *)
(* "enter" on an empty list, "enter" in the detail view, "down" in the     *)
(* detail view, "esc" in the pods or services list, and "p", "s", "up",    *)
(* "down", "enter", "r", "n" while loading each leave every field of the   *)
(* Session unchanged, schedule no fetch and set no error.                  *)
(***************************************************************************)
\* a key pressed where the transition table gives it no effect
InapplicableKey ==
    \/ HasList /\ ListLen(currentView) = 0 /\ KeyEnter
    \/ currentView = DetailView /\ (KeyEnter \/ KeyDown)
    \/ currentView \in {PodView, ServiceView} /\ KeyEsc
    \/ loading /\ (KeyP \/ KeyS \/ KeyUp \/ KeyDown \/ KeyEnter \/ KeyR \/ KeyN)

\* (the cheap test of the frame comes first: most steps pass it)
C23_InapplicableNoOp ==
    [][UNCHANGED <<model, pending, proc>> \/ ~InapplicableKey]_vars

\* a detail fetch is in flight: the keys gated by loading, and "enter" and
\* "down" in the detail view, find nothing to do
C23_Witness ==
    /\ proc = "running"
    /\ loading
    /\ currentView = DetailView
    /\ Len(pending) = 1
    /\ pending[1].cmd = "getPodDetail"

(***************************************************************************)
(* C24: "r", when not loading, sets loading and schedules exactly one      *)
(* snapshot fetch for currentNS, and currentView, selectedItem, currentNS, *)
(* namespaces, resourceData and detailContent stay as they were until the  *)
(* completion arrives.                                                     *)
(* Refuted by the code: the "r" step itself has this effect, but while the *)
(* fetch is in flight "esc" is not gated by loading and moves the view     *)
(* from the detail view or the namespace list to the pods list.            *)
(***************************************************************************)
\* the fetch "r" scheduled with an established client has not completed
RefreshPending ==
    /\ loading
    /\ message = "Refreshing resources..."
    /\ pending # <<>>
    /\ pending[1].cmd = "getResources"
    /\ pending[1].client # "nil"

\* what the claim says stays as it was
RefreshFrame == <<currentView, selectedItem, currentNS, namespaces, resourceData,
                  detailContent>>

C24_RefreshFrame ==
    [][/\ (~loading /\ KeyR) =>
             /\ loading'
             /\ pending' = <<Cmd("getResources", client, currentNS, "")>>
             /\ UNCHANGED RefreshFrame
       /\ (RefreshPending /\ pending' = pending) => UNCHANGED RefreshFrame
      ]_vars

(***************************************************************************)
(* C25: at most one error is held and it is the most recent one: every     *)
(* failed completion sets error to the message of that failure alone (the  *)
(* earlier one is overwritten, not appended to), nothing else changes      *)
(* error, and whenever loading is FALSE and error is not empty the frame   *)
(* rendered is the error frame with that error, not a data view.           *)
(***************************************************************************)
C25_ErrorFrame ==
    (~loading /\ error # "") =>
        /\ View.render = "RenderErrorView"
        /\ View.args = <<error>>

C25_Step ==
    /\ error' # error => (ConnFailure \/ FetchFailure)
    /\ (Completion /\ pending[1].cmd = "initK8sClient") =>
           \A msg \in initK8sClientErr :
               OnK8sClientMsg(msg, <<>>) =>
                   error' = "Error connecting to Kubernetes: " \o msg.err
    /\ (Completion /\ pending[1].cmd = "getNamespaces") =>
           \A msg \in getNamespacesErr :
               OnNamespacesMsg(msg, <<>>) =>
                   error' = "Error fetching namespaces: " \o msg.err
    /\ (Completion /\ pending[1].cmd = "getResources") =>
           \A msg \in getResourcesErr(pending[1].ns) :
               OnResourcesMsg(msg, <<>>) =>
                   error' = "Error fetching resources: " \o msg.err
    /\ (Completion /\ pending[1].cmd = "getPodDetail") =>
           \A msg \in getPodDetailErr :
               OnPodDetailMsg(msg, <<>>) =>
                   error' = "Error fetching pod details: " \o msg.err
    /\ (Completion /\ pending[1].cmd = "getServiceDetail") =>
           \A msg \in getServiceDetailErr :
               OnServiceDetailMsg(msg, <<>>) =>
                   error' = "Error fetching service details: " \o msg.err

C25_LatestErrorOnly == []C25_ErrorFrame /\ [][C25_Step]_vars

\* the namespace fetch failed at startup, and a later service detail failure
\* has replaced its message
C25_Witness ==
    /\ sched = <<"initK8sClient", "getContextInfo", "getNamespaces">>
    /\ ~startup
    /\ ~loading
    /\ error = "Error fetching service details: error fetching service details: timeout"
    /\ View.render = "RenderErrorView"

====
